---- MODULE Spec2Model ----
(***************************************************************************)
(* A model of move_basic (src/src/move_basic.cpp): the goal execution of   *)
(* MoveBasic::executeAction with its two closed-loop controllers,          *)
(* MoveBasic::rotate and MoveBasic::moveLinear.                            *)
(*                                                                         *)
(* Units.  The doubles of the source are fixed-point integers: lengths in  *)
(* centimetres, linear velocities in cm/s, angles in degrees (PI = 180),   *)
(* angular velocities in degrees/s, and clock readings in periods of the   *)
(* controller's ros::Rate (one tick of a controller loop = one period).    *)
(* sqrt is the integer square root.                                        *)
(*                                                                         *)
(* One behaviour is the execution of one goal by executeAction, together   *)
(* with what runs beside it: the reconfiguration callback, the background  *)
(* loop MoveBasic::run, the preempt request of the action server and the   *)
(* transform listener.  The node is taken to stay up (ros::ok() is true).  *)
(***************************************************************************)
EXTENDS Integers, Sequences, FiniteSets, TLC

\* ------------------------------------------------------------------ bounds

\* Ticks of one moveLinear call, when the call is checked on its own.
MaxTime == 5
\* Ticks of the moveLinear call of a goal, when the whole goal is checked.
MaxGoalTime == 3
\* The same, when the setup of a goal is checked.
MaxSetupTime == 1
\* Ticks of one moveLinear call, when it is checked under reconfiguration.
MaxReconfigTime == 3
\* The same, when a reconfiguration can race with an iteration.
\* Iterations of moveLinear for a robot that moves as commanded.
MaxFollowTime == 1500
\* Iterations of moveLinear in a call whose goal is off the robot's axis.
MaxLateralTime == 3
MaxRaceTime == 2

\* --------------------------------------------------------------- constants

\* M_PI, in degrees.
PI == 180

\* The frame names the constructor reads (lines 223-231).
alternatePlanningFrame == "odom"
preferredDrivingFrame == "map"
alternateDrivingFrame == "odom"
baseFrame == "base_footprint"

\* The frames the transform listener may or may not know a chain to the
\* base frame for.
Frames == {"map", "odom"}

\* ------------------------------------------------------------- input sets

\* header.frame_id of a goal message.
GoalFrames == {"map"}
\* Yaw of a pose, as tf's getRPY returns it, within [-PI, PI].
Yaws == {-180, 0, 90}
\* Yaw of the robot in the goal's frame when the goal is received.
RobotYaws == {0, 90}
\* <<x, y>> of the goal in the base frame when the goal is received.
GoalPoints == {<<0, 0>>, <<20, 0>>, <<0, 20>>}
\* The yaw parameter of a rotate call, and the yaw of the robot at its
\* entry, when the robot moves as commanded.
Turns == {90, -90, 180, 40}
StartYaws == {0, 90, -170}
\* Where the goal can be in the base frame while the robot drifts off the
\* line to it: x ahead, y to the left.
LateralXs == {0, 20}
LateralYs == {-30, 0, 10}
\* Goals straight ahead of the robot, in the base frame.
AheadPoints == {<<200, 0>>, <<120, 0>>, <<30, 0>>}
\* Arguments of normalizeAngle: [-3 PI, 3 PI], every ten degrees.
Angles == {10 * i : i \in -54..54}
\* The same, for goals behind the robot.
ReversePoints == {<<-20, 0>>, <<-10, 10>>, <<-10, -10>>}
\* x and y of the goal in the base frame during a moveLinear call, when the
\* call is checked on its own.
RemainingXs == {-10, 0, 20, 30}
RemainingYs == {0}
\* The same, when the whole goal is checked.
GoalRemainingXs == {0, 20}
\* Readings of the collision checker: obstacle_dist and obstacle_angle.
ObstacleDists == {10, 200}
ObstacleAngles == {5, 360}
\* Values of the preferred_planning_frame parameter.
PlanningFrames == {""}
\* The same, and the frames of a goal message, when the resolution of the
\* planning frame is checked.
AnyPlanningFrames == {"", "map"}
AnyGoalFrames == {"map", "odom"}

\* The configurations dynamic reconfigure delivers (MovebasicConfig).
Config1 ==
    [minTurningVelocity |-> 2, maxTurningVelocity |-> 60,
     angularAcceleration |-> 20, angularTolerance |-> 10,
     maxLateralVelocity |-> 30, maxLinearVelocity |-> 50,
     linearAcceleration |-> 10, linearTolerance |-> 10,
     lateralKp |-> 2, lateralKi |-> 1, lateralKd |-> 20,
     linGain |-> 1, rotGain |-> 2, velThreshold |-> 10,
     sideRecoverWeight |-> 1, abortTimeoutSecs |-> 2,
     obstacleWaitThreshold |-> 1, forwardObstacleThreshold |-> 50,
     reverseWithoutTurningThreshold |-> 50]

Config2 ==
    [minTurningVelocity |-> 5, maxTurningVelocity |-> 40,
     angularAcceleration |-> 10, angularTolerance |-> 100,
     maxLateralVelocity |-> 15, maxLinearVelocity |-> 30,
     linearAcceleration |-> 5, linearTolerance |-> 15,
     lateralKp |-> 1, lateralKi |-> 0, lateralKd |-> 10,
     linGain |-> 2, rotGain |-> 3, velThreshold |-> 5,
     sideRecoverWeight |-> 2, abortTimeoutSecs |-> 1,
     obstacleWaitThreshold |-> 2, forwardObstacleThreshold |-> 5,
     reverseWithoutTurningThreshold |-> 12]

Configs == {Config1, Config2}

\* ------------------------------------------------------------------ state

VARIABLES
    cfg,                    \* the tunable members (lines 70-107), as last set
    preferredPlanningFrame, \* member set by the constructor (line 223)
    preemptRequested,       \* actionServer->isPreemptRequested()
    forwardObstacleDist,    \* member written by run() (line 533)
    tfAvailable,            \* frames tfBuffer has a chain to the base frame for
    now,                    \* ros::Time::now(); only moveLinear reads the clock,
                            \* and it is counted from the entry of that call
    pc,                     \* where executeAction is
    ea,                     \* locals of executeAction
    rot,                    \* locals of the running rotate call
    lin,                    \* locals of the running moveLinear call
    cmd,                    \* the last message sendCmd published on /cmd_vel
    reports,                \* terminal outcomes given to the action server
    calls,                  \* the controller calls made for this goal
    hist,                   \* history of the moveLinear call, kept for the
                            \* properties and read by no action: see NoHist
    plant                   \* pose of a robot that moves as commanded; only
                            \* the ...Following actions read and move it

vars == <<cfg, preferredPlanningFrame, preemptRequested, forwardObstacleDist,
          tfAvailable, now, pc, ea, rot, lin, cmd, reports, calls, hist,
          plant>>

env == <<cfg, preemptRequested, forwardObstacleDist, tfAvailable>>

\* ---------------------------------------------------------------- helpers

Abs(x) == IF x < 0 THEN -x ELSE x
Min(a, b) == IF a < b THEN a ELSE b
Max(a, b) == IF a > b THEN a ELSE b

\* std::sqrt on the fixed-point grid: the largest r with r*r <= n.
Sqrt(n) == CHOOSE r \in 0..n : r * r <= n /\ (r + 1) * (r + 1) > n

\* tf2::Vector3::length() of a vector with z = 0.
Length(x, y) == Sqrt(x * x + y * y)

\* atan of a/b in degrees for 0 < a and 0 < b, to the degree.
AtanDeg(a, b) ==
    IF a = b THEN 45
    ELSE IF 2 * a = b THEN 27
    ELSE IF a = 2 * b THEN 63
    ELSE IF a < b THEN 20 ELSE 70

\* atan2(y, x) in degrees, in (-PI, PI].
Atan2(y, x) ==
    IF y = 0 THEN (IF x >= 0 THEN 0 ELSE PI)
    ELSE IF x = 0 THEN (IF y > 0 THEN 90 ELSE -90)
    ELSE IF x > 0 THEN (IF y > 0 THEN AtanDeg(y, x) ELSE -AtanDeg(-y, x))
    ELSE (IF y > 0 THEN PI - AtanDeg(y, -x) ELSE AtanDeg(-y, -x) - PI)

\* The angle in (-PI, PI] that differs from a by whole turns.
Principal(a) == ((a + PI - 1) % (2 * PI)) - (PI - 1)

\* normalizeAngle (lines 146-154): one correction each way.
NormalizeAngle(angle) ==
    LET a1 == IF angle < -PI THEN angle + 2 * PI ELSE angle
    IN  IF a1 > PI THEN a1 - 2 * PI ELSE a1

\* getTransform (lines 266-278): lookupTransform throws unless tf knows both
\* frames in one tree; the base frame is the tree the others hang from.
GetTransform(from, to) ==
    /\ (from = baseFrame \/ from \in tfAvailable)
    /\ (to = baseFrame \/ to \in tfAvailable)

\* transformPose (lines 282-291) succeeds exactly when its lookup does.
TransformPose(from, to) == GetTransform(from, to)

\* abortGoal (lines 339-343): setAborted with the message.
AbortGoal(rs, msg) == Append(rs, [outcome |-> "aborted", text |-> msg])

\* actionServer->setSucceeded() (line 507).
SetSucceeded(rs) == Append(rs, [outcome |-> "succeeded", text |-> ""])

\* sendCmd (lines 514-521): angular.z and linear.x of the Twist.
SendCmd(angular, linear) == [angular |-> angular, linear |-> linear]

\* The return statements of executeAction, by line.
Returns == {"return376", "return395", "return420", "return440", "return452",
            "return471", "return488", "return495", "return502", "return508"}

Active == pc \notin Returns /\ pc # "idle"

\* lookups is the list of the transformPose calls made for the planning
\* frame, in order: the frame asked for and whether the call succeeded;
\* linear is <<x, y>> of the goal in the base frame (line 463).
NoEa == [frameId |-> "", yaw |-> 0, goalYaw |-> 0, planningFrame |-> "",
         drivingFrame |-> "", requestedYaw |-> 0, lookups |-> <<>>,
         linear |-> <<0, 0>>]

NoRot == [yaw |-> 0, requestedYaw |-> 0, angleRemaining |-> 0,
          velocity |-> 0, success |-> FALSE, done |-> FALSE]

NoLin == [drivingFrame |-> "", forward |-> FALSE, requestedDistance |-> 0, prevDistRemaining |-> 0,
          pausingForObstacle |-> FALSE, last |-> 0, obstacleTime |-> 0,
          abortTimeout |-> 0, lateralIntegral |-> 0, lateralError |-> 0,
          prevLateralError |-> 0, lateralDiff |-> 0, distRemaining |-> 0,
          rotation |-> 0, obstacleDist |-> 0, velocity |-> 0,
          success |-> FALSE, done |-> FALSE]

\* What has been seen of the running moveLinear call: risingSince, the clock
\* reading since which distRemaining has strictly increased on every tick
\* (the latest tick on which it did not, or the entry of the call);
\* detectedSince, the clock reading of the first of the ticks, up to the
\* latest one without a break, whose obstacle distance was below
\* forwardObstacleThreshold, or -1 when the latest tick's was not; lowMark,
\* the least of requestedDistance and the distRemaining of every tick;
\* improvedAt, the clock reading of the latest tick whose distRemaining was
\* below every distance before it (or of the entry of the call);
\* reverseDist, what obstacle_dist(false, ...) read at the latest tick;
\* read, the values of the tunables that the latest tick read.
NoHist == [risingSince |-> 0, detectedSince |-> -1, lowMark |-> 0,
           improvedAt |-> 0, reverseDist |-> 0, read |-> Config1]

\* The robot where the goal found it, at rest: x is the distance driven
\* along its heading and yaw its heading, counted in 1/Rate of the units of
\* length and angle, so that a speed v kept for one period adds v.
NoPlant == [x |-> 0, yaw |-> 0]

\* ------------------------------------------------------------------- Init

\* The node after its constructor: no goal yet, nothing published.
Init ==
    /\ cfg \in Configs
    /\ preferredPlanningFrame \in PlanningFrames
    /\ preemptRequested = FALSE
    /\ forwardObstacleDist \in ObstacleDists
    /\ tfAvailable \in SUBSET Frames
    /\ now = 0
    /\ pc = "idle"
    /\ ea = NoEa
    /\ rot = NoRot
    /\ lin = NoLin
    /\ cmd = SendCmd(0, 0)
    /\ reports = <<>>
    /\ calls = <<>>
    /\ hist = NoHist
    /\ plant = NoPlant

\* ------------------------------------------------- what runs beside a goal

\* dynamicReconfigCallback (lines 295-319), dispatched by a spinOnce: every
\* tunable member is overwritten from the delivered configuration.
Reconfig ==
    /\ Active
    /\ \E c \in Configs \ {cfg} : cfg' = c
    /\ UNCHANGED <<plant, preferredPlanningFrame, preemptRequested, forwardObstacleDist,
                   tfAvailable, now, pc, ea, rot, lin, cmd, reports, calls, hist>>

\* One iteration of run() (lines 530-544): forwardObstacleDist is
\* overwritten with the collision checker's forward reading.
Run ==
    /\ Active
    /\ \E d \in ObstacleDists \ {forwardObstacleDist} : forwardObstacleDist' = d
    /\ UNCHANGED <<plant, cfg, preferredPlanningFrame, preemptRequested, tfAvailable,
                   now, pc, ea, rot, lin, cmd, reports, calls, hist>>

\* The action server takes a preempt request for the goal being executed;
\* isPreemptRequested() is true from then on.
PreemptRequest ==
    /\ Active
    /\ ~preemptRequested
    /\ preemptRequested' = TRUE
    /\ UNCHANGED <<plant, cfg, preferredPlanningFrame, forwardObstacleDist, tfAvailable,
                   now, pc, ea, rot, lin, cmd, reports, calls, hist>>

\* The transform listener (line 68) fills tfBuffer, and entries older than
\* the buffer's 3 s expire (line 172): frames come and go.
TfUpdate ==
    /\ Active
    /\ \E a \in (SUBSET Frames) \ {tfAvailable} : tfAvailable' = a
    /\ UNCHANGED <<plant, cfg, preferredPlanningFrame, preemptRequested,
                   forwardObstacleDist, now, pc, ea, rot, lin, cmd, reports, calls, hist>>

\* ----------------------------------------------------- executeAction: setup

\* Lines 361-377: the goal message is read; a NaN orientation is refused.
\* Fs bounds the frame of the goal, Ys its yaw, Nans whether its
\* orientation is NaN.
ReceiveGoalOf(Fs, Ys, Nans) ==
    /\ pc = "idle"
    /\ \E f \in Fs, y \in Ys, isnan \in Nans :
        /\ ea' = [ea EXCEPT !.frameId = f, !.yaw = y]
        /\ IF isnan
           THEN /\ reports' = AbortGoal(reports, "invalid orientation")
                /\ pc' = "return376"
           ELSE /\ reports' = reports
                /\ pc' = "planning"
    /\ UNCHANGED <<plant, env, preferredPlanningFrame, now, rot, lin, cmd, calls, hist>>

\* A goal of any yaw arrives, its orientation NaN or not.
ReceiveGoal(Fs) == ReceiveGoalOf(Fs, Yaws, BOOLEAN)

\* A variant that gives up when the preferred lookup fails, without trying
\* the alternate frame; C13_PlanningFrameResolution tells it from the
\* source's.
PlanningFrameNoFallback(frameId) ==
    IF preferredPlanningFrame = "" THEN frameId
    ELSE IF ~TransformPose(frameId, preferredPlanningFrame)
         THEN ""
         ELSE preferredPlanningFrame

\* Lines 383-402: the planning frame, or "" when neither lookup succeeds.
PlanningFrame(frameId) ==
    IF preferredPlanningFrame = "" THEN frameId
    ELSE IF ~TransformPose(frameId, preferredPlanningFrame)
         THEN IF ~TransformPose(frameId, alternatePlanningFrame)
              THEN ""
              ELSE alternatePlanningFrame
         ELSE preferredPlanningFrame

\* Lines 385-394: the transformPose calls that resolution makes, in order.
PlanningLookups(frameId) ==
    IF preferredPlanningFrame = "" THEN <<>>
    ELSE IF ~TransformPose(frameId, preferredPlanningFrame)
         THEN <<[to |-> preferredPlanningFrame, ok |-> FALSE],
                [to |-> alternatePlanningFrame,
                 ok |-> TransformPose(frameId, alternatePlanningFrame)]>>
         ELSE <<[to |-> preferredPlanningFrame, ok |-> TRUE]>>

\* Lines 383-406: planning frame resolution and the goal's yaw in it.
ResolvePlanning ==
    /\ pc = "planning"
    /\ LET pf == PlanningFrame(ea.frameId) IN
        IF pf = ""
        THEN /\ reports' = AbortGoal(reports, "no localization for planning")
             /\ pc' = "return395"
             /\ ea' = [ea EXCEPT !.lookups = PlanningLookups(ea.frameId)]
        ELSE /\ reports' = reports
             /\ pc' = "pose"
             /\ \E gy \in (IF pf = ea.frameId THEN {ea.yaw} ELSE Yaws) :
                  ea' = [ea EXCEPT !.planningFrame = pf, !.goalYaw = gy,
                                   !.lookups = PlanningLookups(ea.frameId)]
    /\ UNCHANGED <<plant, env, preferredPlanningFrame, now, rot, lin, cmd, calls, hist>>

\* Lines 417-428: the robot's pose in the goal's frame; yaw is overwritten.
\* Ys bounds the yaw the lookup finds.
RobotPoseAt(Ys) ==
    /\ pc = "pose"
    /\ IF ~GetTransform(baseFrame, ea.frameId)
       THEN /\ reports' = AbortGoal(reports, "robot pose in goal frame")
            /\ pc' = "return420"
            /\ ea' = ea
       ELSE /\ reports' = reports
            /\ pc' = "driving"
            /\ \E y \in Ys : ea' = [ea EXCEPT !.yaw = y]
    /\ UNCHANGED <<plant, env, preferredPlanningFrame, now, rot, lin, cmd, calls, hist>>

\* The robot is found at any yaw.
RobotPose == RobotPoseAt(RobotYaws)

\* Lines 434-448: the driving frame, or "" when neither lookup succeeds.
DrivingFrame ==
    IF ~GetTransform(preferredDrivingFrame, baseFrame)
    THEN IF ~GetTransform(alternateDrivingFrame, baseFrame)
         THEN ""
         ELSE alternateDrivingFrame
    ELSE preferredDrivingFrame

\* Lines 430-448: driving frame resolution.
ResolveDriving ==
    /\ pc = "driving"
    /\ IF DrivingFrame = ""
       THEN /\ reports' = AbortGoal(reports, "robot pose in driving frame")
            /\ pc' = "return440"
            /\ ea' = ea
       ELSE /\ reports' = reports
            /\ pc' = "goalInDriving"
            /\ ea' = [ea EXCEPT !.drivingFrame = DrivingFrame]
    /\ UNCHANGED <<plant, env, preferredPlanningFrame, now, rot, lin, cmd, calls, hist>>

\* Lines 450-453: the goal in the driving frame.
GoalInDriving ==
    /\ pc = "goalInDriving"
    /\ IF ~TransformPose(ea.frameId, ea.drivingFrame)
       THEN /\ reports' = AbortGoal(reports, "goal pose in driving frame")
            /\ pc' = "return452"
       ELSE /\ reports' = reports
            /\ pc' = "goalInBase"
    /\ UNCHANGED <<plant, env, preferredPlanningFrame, now, ea, rot, lin, cmd, calls, hist>>

\* Lines 475-483: the heading of the goal, turned round when backing up.
InitialYaw(x, y, reverseWithoutTurning) ==
    LET requestedYaw == Atan2(y, x) IN
    IF reverseWithoutTurning
    THEN IF requestedYaw > 0 THEN -PI + requestedYaw ELSE PI - requestedYaw
    ELSE requestedYaw

\* A variant that turns before every translation; C20_StraightAheadSucceeds
\* tells it from the source's.
FirstPhaseAlwaysRotates(dist, requestedYaw) ==
    IF dist > cfg.linearTolerance THEN "rotate1Entry" ELSE "return508"

\* Lines 474-490 and 507: what executeAction does once the goal is known in
\* the base frame: "rotate1Entry", "moveLinearEntry" or "return508".
FirstPhase(dist, requestedYaw) ==
    IF dist > cfg.linearTolerance
    THEN IF Abs(requestedYaw) > cfg.angularTolerance
         THEN "rotate1Entry"
         ELSE "moveLinearEntry"
    ELSE "return508"

\* Lines 455-490: distance and heading of the goal in the base frame, and
\* the first controller to call.  Points bounds where the goal can be.
PlanMotion(Points) ==
    /\ pc = "goalInBase"
    /\ \E linear \in Points :
        LET x == linear[1]
            y == linear[2]
            dist == Length(x, y)
            reverseWithoutTurning ==
                cfg.reverseWithoutTurningThreshold > dist /\ x < 0
            requestedYaw == InitialYaw(x, y, reverseWithoutTurning)
            next == FirstPhase(dist, requestedYaw)
        IN  IF ~TransformPose(ea.frameId, baseFrame)
            THEN /\ pc' = "return471"
                 /\ UNCHANGED <<plant, ea, rot, reports>>
            ELSE /\ pc' = next
                 /\ ea' = [ea EXCEPT !.linear = linear,
                                      !.requestedYaw =
                                          IF dist > cfg.linearTolerance
                                          THEN requestedYaw ELSE 0]
                 /\ rot' = IF next = "rotate1Entry"
                           THEN [NoRot EXCEPT !.yaw = requestedYaw] ELSE rot
                 /\ reports' = IF next = "return508"
                               THEN SetSucceeded(reports) ELSE reports
    /\ UNCHANGED <<plant, env, preferredPlanningFrame, now, lin, cmd, calls, hist>>

\* ------------------------------------------------------- controller calls

\* A controller call begins: phase is "rotate1", "moveLinear" or "rotate2".
\* ret is "running" until the call returns "true" or "false"; preempt tells
\* whether its last tick took the preempt branch (lines 589, 720), lookup
\* whether it returned from a failed getTransform.
Call(phase) ==
    Append(calls, [phase |-> phase, ret |-> "running", preempt |-> FALSE,
                   lookup |-> FALSE])

\* The running call returns.
Return(cs, success, preempt, lookup) ==
    [cs EXCEPT ![Len(cs)] = [@ EXCEPT !.ret = IF success THEN "true" ELSE "false",
                                      !.preempt = preempt, !.lookup = lookup]]

\* Lines 487-491: after the initial rotation.
AfterRotate1(success) == IF success THEN "moveLinearEntry" ELSE "return488"

\* A variant that goes on to the final check whatever moveLinear returned;
\* C6_ControllerCallOrder tells it from the source's.
AfterMoveLinearRegardless(success) == "finalCheck"

\* Lines 494-497: after the linear portion.
AfterMoveLinear(success) == IF success THEN "finalCheck" ELSE "return495"

\* Lines 501-507: after the final rotation.
AfterRotate2(success) == IF success THEN "return508" ELSE "return502"

\* ----------------------------------------------------------------- rotate

\* Lines 550-566: the pose lookup at entry and the absolute target yaw.  Ys
\* bounds the yaw the lookup finds.
RotateEntryAt(Ys) ==
    /\ pc \in {"rotate1Entry", "rotate2Entry"}
    /\ LET phase == IF pc = "rotate1Entry" THEN "rotate1" ELSE "rotate2" IN
        IF ~GetTransform(baseFrame, ea.drivingFrame)
        THEN /\ reports' = AbortGoal(reports, "robot pose for rotation")
             /\ calls' = Return(Call(phase), FALSE, FALSE, TRUE)
             /\ pc' = IF phase = "rotate1"
                      THEN AfterRotate1(FALSE) ELSE AfterRotate2(FALSE)
             /\ rot' = rot
        ELSE /\ reports' = reports
             /\ calls' = Call(phase)
             /\ pc' = phase
             /\ \E currentYaw \in Ys :
                  rot' = [rot EXCEPT
                             !.requestedYaw = NormalizeAngle(currentYaw + rot.yaw)]
    /\ UNCHANGED <<env, preferredPlanningFrame, now, ea, lin, cmd, hist>>

\* The entry of rotate, wherever the robot is.
RotateEntry ==
    /\ RotateEntryAt(Yaws)
    /\ plant' = plant

\* Lines 584-587: the angular speed before the exit checks.
RotateVelocity(c, angleRemaining, obstacle) ==
    LET remaining == Min(Abs(angleRemaining), Abs(obstacle)) IN
    Max(c.minTurningVelocity,
        Min(c.rotGain * remaining,
            Min(c.maxTurningVelocity,
                Sqrt(2 * c.angularAcceleration * remaining))))

\* A variant whose preempt branch leaves the speed as it is;
\* C23_CommandsWithinLimits tells it from the source's.
RotateExitKeepsSpeed(r, c, preempt) ==
    LET r1 == IF preempt
              THEN [r EXCEPT !.done = TRUE, !.success = FALSE]
              ELSE r
    IN  IF Abs(r1.angleRemaining) < c.angularTolerance
        THEN [r1 EXCEPT !.velocity = 0, !.success = TRUE, !.done = TRUE]
        ELSE r1

\* Lines 589-601: the exit checks of a rotate tick, in the order of the
\* source: the preempt branch, then the tolerance branch.
RotateExit(r, c, preempt) ==
    LET r1 == IF preempt
              THEN [r EXCEPT !.done = TRUE, !.success = FALSE, !.velocity = 0]
              ELSE r
    IN  IF Abs(r1.angleRemaining) < c.angularTolerance
        THEN [r1 EXCEPT !.velocity = 0, !.success = TRUE, !.done = TRUE]
        ELSE r1

\* A variant that never reverses the command; C19_RotationConverges tells
\* it from the source's.
RotateBodyNoReverse(r, c, currentYaw, obstacle, preempt) ==
    LET angleRemaining == NormalizeAngle(r.requestedYaw - currentYaw)
        r0 == [r EXCEPT !.angleRemaining = angleRemaining,
                        !.velocity = RotateVelocity(c, angleRemaining, obstacle)]
    IN  RotateExit(r0, c, preempt)

\* Lines 578-606: one tick of rotate after a successful lookup.
RotateBody(r, c, currentYaw, obstacle, preempt) ==
    LET angleRemaining == NormalizeAngle(r.requestedYaw - currentYaw)
        r0 == [r EXCEPT !.angleRemaining = angleRemaining,
                        !.velocity = RotateVelocity(c, angleRemaining, obstacle)]
        r2 == RotateExit(r0, c, preempt)
    IN  IF angleRemaining < 0 THEN [r2 EXCEPT !.velocity = -r2.velocity] ELSE r2

\* Lines 568-611: one iteration of the loop of rotate, and the return when
\* it was the last.  Ys bounds the yaw the lookup finds, Os the reading of
\* obstacle_angle.
RotateStep(Ys, Os) ==
    /\ pc \in {"rotate1", "rotate2"}
    /\ IF ~GetTransform(baseFrame, ea.drivingFrame)
       THEN /\ reports' = AbortGoal(reports, "robot pose for rotation")
            /\ calls' = Return(calls, FALSE, FALSE, TRUE)
            /\ pc' = IF pc = "rotate1"
                     THEN AfterRotate1(FALSE) ELSE AfterRotate2(FALSE)
            /\ UNCHANGED <<plant, rot, cmd>>
       ELSE \E currentYaw \in Ys, obstacle \in Os :
            LET r == RotateBody(rot, cfg, currentYaw, obstacle, preemptRequested)
            IN  /\ rot' = r
                /\ cmd' = SendCmd(r.velocity, 0)
                /\ IF r.done
                   THEN /\ calls' = Return(calls, r.success, preemptRequested, FALSE)
                        /\ pc' = IF pc = "rotate1" THEN AfterRotate1(r.success)
                                 ELSE AfterRotate2(r.success)
                        /\ reports' = IF pc = "rotate2" /\ r.success
                                      THEN SetSucceeded(reports) ELSE reports
                   ELSE UNCHANGED <<calls, pc, reports>>
    /\ UNCHANGED <<env, preferredPlanningFrame, now, ea, lin, hist>>

\* An iteration of rotate, wherever the robot is.
RotateTick ==
    /\ RotateStep(Yaws, ObstacleAngles)
    /\ plant' = plant

\* ros::Rate r(50) (lines 566, 644): iterations per unit of time.
Rate == 50

\* The yaw a lookup finds for the robot that moves as commanded.
PlantYaw(q) == Principal(q.yaw \div Rate)

\* The robot after one more period at the speeds last commanded.
Moved(q, c) == [x |-> q.x + c.linear, yaw |-> q.yaw + c.angular]

\* The entry of rotate for the robot that moves as commanded, unobstructed.
RotateEntryFollowing ==
    /\ RotateEntryAt({PlantYaw(plant)})
    /\ plant' = plant

\* An iteration of rotate for that robot: r.sleep() lets it move for one
\* period at the speed last commanded, then its pose is looked up.
RotateTickFollowing ==
    /\ plant' = Moved(plant, cmd)
    /\ RotateStep({PlantYaw(plant')}, {2 * PI})

\* ------------------------------------------------------------- moveLinear

\* Lines 616-644: the pose lookup at entry and the locals of the call.  Xs
\* and Ys bound where the goal can be in the base frame.  The locals of the
\* rotate call before it are gone.
MoveLinearEntryAt(Xs, Ys) ==
    /\ pc = "moveLinearEntry"
    /\ IF ~GetTransform(ea.drivingFrame, baseFrame)
       THEN /\ reports' = AbortGoal(reports, "robot pose for linear")
            /\ calls' = Return(Call("moveLinear"), FALSE, FALSE, TRUE)
            /\ pc' = AfterMoveLinear(FALSE)
            /\ lin' = lin
       ELSE /\ reports' = reports
            /\ calls' = Call("moveLinear")
            /\ pc' = "moveLinear"
            /\ \E x \in Xs, y \in Ys :
                 lin' = [NoLin EXCEPT !.drivingFrame = ea.drivingFrame,
                                      !.forward = (x > 0),
                                      !.requestedDistance = Length(x, y),
                                      !.prevDistRemaining = Length(x, y),
                                      !.last = now,
                                      !.abortTimeout = cfg.abortTimeoutSecs]
    /\ rot' = NoRot
    /\ hist' = [NoHist EXCEPT !.risingSince = now, !.improvedAt = now,
                               !.lowMark = lin'.requestedDistance,
                               !.read = cfg]
    /\ UNCHANGED <<env, preferredPlanningFrame, now, ea, cmd>>

\* The entry when the robot stands still.
MoveLinearEntry(Xs, Ys) ==
    /\ MoveLinearEntryAt(Xs, Ys)
    /\ plant' = plant

\* Lines 658-667: the lateral PID and the clamped rotation.
LateralStage(l, c, y) ==
    LET lateralDiff == l.lateralError - l.prevLateralError
        lateralError == c.sideRecoverWeight * y
        lateralIntegral == l.lateralIntegral + lateralError
        rotation == (c.lateralKp * lateralError) + (c.lateralKi * lateralIntegral)
                    + (c.lateralKd * lateralDiff)
    IN  [l EXCEPT !.lateralDiff = lateralDiff,
                  !.lateralError = lateralError,
                  !.prevLateralError = lateralError,
                  !.lateralIntegral = lateralIntegral,
                  !.rotation = Max(-c.maxLateralVelocity,
                                   Min(c.maxLateralVelocity, rotation))]

\* Lines 682-689: the obstacle distance a tick uses; reverseDist is what
\* obstacle_dist(false, ...) would return.
ObstacleDist(requestedDistance, forwardDist, reverseDist) ==
    IF requestedDistance < 0 THEN reverseDist ELSE forwardDist

\* Lines 691-692: the linear speed before the checks.
LinearVelocity(c, obstacleDist, distRemaining) ==
    LET m == Min(Abs(obstacleDist), Abs(distRemaining)) IN
    Min(c.linGain * m,
        Min(c.maxLinearVelocity, Sqrt(2 * c.linearAcceleration * m)))

\* Line 694.
ObstacleDetected(c, obstacleDist) == obstacleDist < c.forwardObstacleThreshold

\* Lines 695-705: the obstacle has been waited for longer than allowed.
ObstacleTimeout(l, c, obstacleDist, t) ==
    /\ ObstacleDetected(c, obstacleDist)
    /\ l.pausingForObstacle
    /\ t - l.obstacleTime > c.obstacleWaitThreshold

\* A variant that zeroes the speed only on the tick that starts a pause;
\* C8_ObstaclePausesAndStops tells it from the source's.
ObstacleStageKeepsSpeed(l, c, obstacleDist, t) ==
    IF ObstacleDetected(c, obstacleDist)
    THEN IF ~l.pausingForObstacle
         THEN [l EXCEPT !.velocity = 0, !.obstacleTime = t,
                        !.pausingForObstacle = TRUE]
         ELSE IF ObstacleTimeout(l, c, obstacleDist, t)
              THEN [l EXCEPT !.velocity = 0, !.success = FALSE, !.done = TRUE]
              ELSE l
    ELSE [l EXCEPT !.pausingForObstacle = FALSE]

\* A variant that does not restart the wait when a pause starts;
\* C9_ObstacleAbortAfterOnePause tells it from the source's.
ObstacleStageKeepsTimer(l, c, obstacleDist, t) ==
    IF ObstacleDetected(c, obstacleDist)
    THEN IF ~l.pausingForObstacle
         THEN [l EXCEPT !.velocity = 0, !.pausingForObstacle = TRUE]
         ELSE IF ObstacleTimeout(l, c, obstacleDist, t)
              THEN [l EXCEPT !.velocity = 0, !.success = FALSE, !.done = TRUE]
              ELSE [l EXCEPT !.velocity = 0]
    ELSE [l EXCEPT !.pausingForObstacle = FALSE]

\* Lines 694-716: pausing for an obstacle, and resuming.
ObstacleStage(l, c, obstacleDist, t) ==
    IF ObstacleDetected(c, obstacleDist)
    THEN IF ~l.pausingForObstacle
         THEN [l EXCEPT !.velocity = 0, !.obstacleTime = t,
                        !.pausingForObstacle = TRUE]
         ELSE IF ObstacleTimeout(l, c, obstacleDist, t)
              THEN [l EXCEPT !.velocity = 0, !.success = FALSE, !.done = TRUE]
              ELSE [l EXCEPT !.velocity = 0]
    ELSE [l EXCEPT !.pausingForObstacle = FALSE]

\* Lines 720-725: the preempt branch.
PreemptStage(l, preempt) ==
    IF preempt
    THEN [l EXCEPT !.velocity = 0, !.success = FALSE, !.done = TRUE]
    ELSE l

\* Lines 727-729: no progress for longer than the timeout of the call.
NoProgress(l, t) ==
    /\ l.distRemaining > l.prevDistRemaining
    /\ t - l.last > l.abortTimeout

\* Lines 727-738: the progress check.
ProgressStage(l, t) ==
    IF l.distRemaining > l.prevDistRemaining
    THEN IF NoProgress(l, t)
         THEN [l EXCEPT !.prevDistRemaining = l.distRemaining,
                        !.velocity = 0, !.success = FALSE, !.done = TRUE]
         ELSE [l EXCEPT !.prevDistRemaining = l.distRemaining]
    ELSE [l EXCEPT !.last = t]

\* Lines 742-747: the finish check.
FinishStage(l, c) ==
    IF Abs(l.velocity) < c.velThreshold /\ l.distRemaining < c.linearTolerance
    THEN [l EXCEPT !.velocity = 0, !.success = TRUE, !.done = TRUE]
    ELSE l

\* Lines 658-751: one tick of moveLinear after a successful lookup that
\* found the goal distRemaining away and y to the left, with the clock
\* reading t.
MoveLinearBody(l, c, distRemaining, y, obstacleDist, preempt, t) ==
    LET l0 == [LateralStage(l, c, y) EXCEPT
                  !.distRemaining = distRemaining,
                  !.obstacleDist = obstacleDist,
                  !.velocity = LinearVelocity(c, obstacleDist, distRemaining)]
        l1 == ObstacleStage(l0, c, obstacleDist, t)
        l2 == PreemptStage(l1, preempt)
        l3 == ProgressStage(l2, t)
        l4 == FinishStage(l3, c)
    IN  IF ~l4.forward THEN [l4 EXCEPT !.velocity = -l4.velocity] ELSE l4

\* The abortGoal calls of one tick (lines 706 and 730), in order.
MoveLinearAborts(rs, l, c, obstacleDist, distRemaining, t) ==
    LET rs1 == IF ObstacleTimeout(l, c, obstacleDist, t)
               THEN AbortGoal(rs, "obstacle") ELSE rs
    IN  IF NoProgress([l EXCEPT !.distRemaining = distRemaining], t)
        THEN AbortGoal(rs1, "no progress") ELSE rs1

\* The distance the goal was at before a tick: requestedDistance before the
\* first tick, the distRemaining of the tick before otherwise.
DistBefore == IF now = 0 THEN lin.requestedDistance
              ELSE lin.distRemaining

\* The history after a tick at clock reading t that read the tunables c and
\* saw these distances.
Observe(h, c, obstacleDist, reverseDist, distRemaining, t) ==
    [risingSince |-> IF distRemaining > DistBefore THEN h.risingSince ELSE t,
     detectedSince |->
         IF obstacleDist < c.forwardObstacleThreshold
         THEN (IF h.detectedSince = -1 THEN t ELSE h.detectedSince)
         ELSE -1,
     lowMark |-> Min(h.lowMark, distRemaining),
     improvedAt |-> IF distRemaining < h.lowMark THEN t ELSE h.improvedAt,
     reverseDist |-> reverseDist,
     read |-> c]

\* Lines 645-756: one iteration of the loop of moveLinear, and the return
\* when it was the last.  r.sleep() lets one period pass.  Xs and Ys bound
\* where the goal can be in the base frame, maxTime the ticks of the call;
\* c holds the values the iteration reads from the tunable members.
MoveLinearStep(Xs, Ys, maxTime, c) ==
    /\ pc = "moveLinear"
    /\ now < maxTime
    /\ now' = now + 1
    /\ IF ~GetTransform(ea.drivingFrame, baseFrame)
       THEN /\ calls' = Return(calls, FALSE, FALSE, TRUE)
            /\ pc' = AfterMoveLinear(FALSE)
            /\ UNCHANGED <<lin, cmd, reports, hist>>
       ELSE \E x \in Xs, y \in Ys, reverseDist \in ObstacleDists :
            LET obstacleDist == ObstacleDist(lin.requestedDistance,
                                             forwardObstacleDist, reverseDist)
            IN  \E distRemaining \in {Sqrt(x * x + y * y)} :
                \E l \in {MoveLinearBody(lin, c, distRemaining, y, obstacleDist,
                                         preemptRequested, now')} :
                /\ lin' = l
                /\ hist' = Observe(hist, c, obstacleDist, reverseDist,
                                    l.distRemaining, now')
                /\ cmd' = SendCmd(l.rotation, l.velocity)
                /\ reports' = MoveLinearAborts(reports, lin, c, obstacleDist,
                                               l.distRemaining, now')
                /\ IF l.done
                   THEN /\ calls' = Return(calls, l.success, preemptRequested, FALSE)
                        /\ pc' = AfterMoveLinear(l.success)
                   ELSE UNCHANGED <<calls, pc>>
    /\ UNCHANGED <<preemptRequested, forwardObstacleDist, tfAvailable,
                   preferredPlanningFrame, ea, rot>>

\* An iteration during which no reconfiguration is dispatched.
MoveLinearTick(Xs, Ys, maxTime) ==
    /\ MoveLinearStep(Xs, Ys, maxTime, cfg)
    /\ cfg' = cfg
    /\ plant' = plant

\* Where the goal is in the base frame (lines 649-656) for a robot that
\* started at the origin of the driving frame heading along x, and has moved
\* as q says.
PlantRemaining(q) == ea.linear[1] - (q.x \div Rate)

\* The entry of moveLinear for a robot that moves as commanded.
MoveLinearEntryFollowing ==
    /\ MoveLinearEntryAt({PlantRemaining(plant)}, {0})
    /\ plant' = plant

\* An iteration for a robot that moves as commanded, with nothing in the
\* way: during the period slept the robot kept the velocities last sent.
MoveLinearTickFollowing ==
    /\ plant' = Moved(plant, cmd)
    /\ MoveLinearStep({PlantRemaining(plant')}, {0}, MaxFollowTime, cfg)
    /\ cfg' = cfg

\* The order in which dynamicReconfigCallback assigns the tunable members
\* (lines 296-316).
WriteOrder ==
    <<"minTurningVelocity", "maxTurningVelocity", "maxLateralVelocity",
      "angularAcceleration", "maxLinearVelocity", "linearAcceleration",
      "angularTolerance", "linearTolerance", "lateralKp", "lateralKi",
      "lateralKd", "linGain", "rotGain", "velThreshold", "sideRecoverWeight",
      "abortTimeoutSecs", "obstacleWaitThreshold", "forwardObstacleThreshold",
      "reverseWithoutTurningThreshold">>

\* The members when the callback, delivering new over old, has made its
\* first k assignments.
Torn(old, new, k) ==
    [f \in DOMAIN old |->
        IF \E i \in 1..k : WriteOrder[i] = f THEN new[f] ELSE old[f]]

\* How far the callback can have got when an iteration reads the members:
\* not started, past linearTolerance, past velThreshold, finished.
TearPoints == {0, 8, 14, Len(WriteOrder)}

\* An iteration during which run(), on the main thread, dispatches
\* dynamicReconfigCallback from its spinOnce (line 531) while this thread,
\* the action server's, reads the members with no lock: the reads race
\* with the assignments and see them done up to some point.
MoveLinearTickRacing(Xs, Ys, maxTime) ==
    \E new \in Configs \ {cfg}, k \in TearPoints :
        /\ MoveLinearStep(Xs, Ys, maxTime, Torn(cfg, new, k))
        /\ cfg' = new
        /\ plant' = plant

\* Lines 500-507: the residual yaw, and whether the final rotation is run:
\* "rotate2Entry" or "return508".
FinalYaw(e) == e.goalYaw - (e.yaw + e.requestedYaw)

LastPhase(finalYaw) ==
    IF Abs(finalYaw) > cfg.angularTolerance THEN "rotate2Entry" ELSE "return508"

\* Lines 497-507: after the linear portion succeeded.  The locals of the
\* moveLinear call are gone.
FinalCheck ==
    /\ pc = "finalCheck"
    /\ pc' = LastPhase(FinalYaw(ea))
    /\ rot' = IF pc' = "rotate2Entry"
              THEN [NoRot EXCEPT !.yaw = FinalYaw(ea)] ELSE rot
    /\ reports' = IF pc' = "return508" THEN SetSucceeded(reports) ELSE reports
    /\ lin' = NoLin
    /\ hist' = NoHist
    /\ UNCHANGED <<plant, env, preferredPlanningFrame, now, ea, cmd, calls>>

\* ------------------------------------------------------------------ Next

Next ==
    \/ Run
    \/ PreemptRequest
    \/ TfUpdate
    \/ ReceiveGoal(GoalFrames)
    \/ ResolvePlanning
    \/ RobotPose
    \/ ResolveDriving
    \/ GoalInDriving
    \/ PlanMotion(GoalPoints)
    \/ RotateEntry
    \/ RotateTick
    \/ MoveLinearEntry(GoalRemainingXs, RemainingYs)
    \/ MoveLinearTick(GoalRemainingXs, RemainingYs, MaxGoalTime)
    \/ FinalCheck

\* The execution of one goal, under a configuration that stays as it is.
Spec == Init /\ [][Next]_vars

\* --------------------------------------- the setup of a goal, any frames

\* The node after its constructor, with preferred_planning_frame set or not.
InitSetup ==
    /\ cfg \in Configs
    /\ preferredPlanningFrame \in AnyPlanningFrames
    /\ preemptRequested = FALSE
    /\ forwardObstacleDist \in ObstacleDists
    /\ tfAvailable \in SUBSET Frames
    /\ now = 0
    /\ pc = "idle"
    /\ ea = NoEa
    /\ rot = NoRot
    /\ lin = NoLin
    /\ cmd = SendCmd(0, 0)
    /\ reports = <<>>
    /\ calls = <<>>
    /\ hist = NoHist
    /\ plant = NoPlant

NextSetup ==
    \/ Run
    \/ PreemptRequest
    \/ TfUpdate
    \/ ReceiveGoal(AnyGoalFrames)
    \/ ResolvePlanning
    \/ RobotPose
    \/ ResolveDriving
    \/ GoalInDriving
    \/ PlanMotion(GoalPoints)
    \/ RotateEntry
    \/ RotateTick
    \/ MoveLinearEntry(GoalRemainingXs, RemainingYs)
    \/ MoveLinearTick(GoalRemainingXs, RemainingYs, MaxSetupTime)
    \/ FinalCheck

\* The execution of one goal in any frame, its controllers cut short.
SpecSetup == InitSetup /\ [][NextSetup]_vars

\* ------------------------------------------------- goals behind the robot

NextReverse ==
    \/ Run
    \/ PreemptRequest
    \/ TfUpdate
    \/ ReceiveGoal(GoalFrames)
    \/ ResolvePlanning
    \/ RobotPose
    \/ ResolveDriving
    \/ GoalInDriving
    \/ PlanMotion(ReversePoints)
    \/ RotateEntry
    \/ RotateTick
    \/ MoveLinearEntry(GoalRemainingXs, RemainingYs)
    \/ MoveLinearTick(GoalRemainingXs, RemainingYs, MaxSetupTime)
    \/ FinalCheck

\* The execution of one goal behind the robot, its translation cut short.
SpecReverse == Init /\ [][NextReverse]_vars

\* ------------------------- one call of rotate, the robot moving as told

\* executeAction about to call rotate for the initial rotation (line 487),
\* all transforms available, nothing in the way and no preempt to come.
InitRotateFollow ==
    /\ cfg \in Configs
    /\ preferredPlanningFrame = ""
    /\ preemptRequested = FALSE
    /\ forwardObstacleDist = 200
    /\ tfAvailable = Frames
    /\ now = 0
    /\ pc = "rotate1Entry"
    /\ \E yaw \in Turns :
          /\ ea = [NoEa EXCEPT !.frameId = "map", !.planningFrame = "map",
                               !.drivingFrame = "map", !.requestedYaw = yaw]
          /\ rot = [NoRot EXCEPT !.yaw = yaw]
    /\ lin = NoLin
    /\ cmd = SendCmd(0, 0)
    /\ reports = <<>>
    /\ calls = <<>>
    /\ hist = NoHist
    /\ \E y \in StartYaws : plant = [NoPlant EXCEPT !.yaw = y * Rate]

NextRotateFollow == RotateEntryFollowing \/ RotateTickFollowing

\* One call of rotate; the loop keeps running (lines 568-570).
SpecRotateFollow ==
    InitRotateFollow /\ [][NextRotateFollow]_vars /\ WF_vars(NextRotateFollow)

\* ----------------- a goal straight ahead, the robot moving as commanded

\* A goal in the frame the robot is driven in, the robot at the origin of
\* it with yaw 0; all transforms available, nothing in the way.
InitGoalFollow ==
    /\ cfg \in Configs
    /\ preferredPlanningFrame = ""
    /\ preemptRequested = FALSE
    /\ forwardObstacleDist = 200
    /\ tfAvailable = Frames
    /\ now = 0
    /\ pc = "idle"
    /\ ea = NoEa
    /\ rot = NoRot
    /\ lin = NoLin
    /\ cmd = SendCmd(0, 0)
    /\ reports = <<>>
    /\ calls = <<>>
    /\ hist = NoHist
    /\ plant = NoPlant

NextGoalFollow ==
    \/ ReceiveGoalOf({"map"}, {0}, {FALSE})
    \/ ResolvePlanning
    \/ RobotPoseAt({0})
    \/ ResolveDriving
    \/ GoalInDriving
    \/ PlanMotion(AheadPoints)
    \/ MoveLinearEntryFollowing
    \/ MoveLinearTickFollowing
    \/ FinalCheck

\* executeAction runs on: no step of it waits for anything but the period
\* of the loop (line 756).
SpecGoalFollow ==
    InitGoalFollow /\ [][NextGoalFollow]_vars /\ WF_vars(NextGoalFollow)

\* ------------------- the commands of a rotate call and a moveLinear call

\* executeAction about to call rotate for the initial rotation (line 487);
\* moveLinear follows when it succeeds (line 494).
InitCommands ==
    /\ cfg \in Configs
    /\ preferredPlanningFrame = ""
    /\ preemptRequested = FALSE
    /\ forwardObstacleDist \in ObstacleDists
    /\ tfAvailable = Frames
    /\ now = 0
    /\ pc = "rotate1Entry"
    /\ ea = [NoEa EXCEPT !.frameId = "map", !.planningFrame = "map",
                         !.drivingFrame = "map", !.requestedYaw = 90,
                         !.linear = <<0, 20>>]
    /\ rot = [NoRot EXCEPT !.yaw = 90]
    /\ lin = NoLin
    /\ cmd = SendCmd(0, 0)
    /\ reports = <<>>
    /\ calls = <<>>
    /\ hist = NoHist
    /\ plant = NoPlant

NextCommands ==
    \/ Run
    \/ PreemptRequest
    \/ TfUpdate
    \/ RotateEntry
    \/ RotateTick
    \/ MoveLinearEntry(LateralXs, LateralYs)
    \/ MoveLinearTick(LateralXs, LateralYs, MaxLateralTime)

\* The two controller calls of a goal to the left of the robot, with all
\* that can happen in them.
SpecCommands == InitCommands /\ [][NextCommands]_vars

\* ---------------------------------------------------------- normalizeAngle

\* rotate about to normalize an angle (line 560): rot.requestedYaw holds it.
InitAngle ==
    /\ cfg = Config1
    /\ preferredPlanningFrame = ""
    /\ preemptRequested = FALSE
    /\ forwardObstacleDist = 200
    /\ tfAvailable = Frames
    /\ now = 0
    /\ pc = "normalize"
    /\ ea = NoEa
    /\ \E angle \in Angles : rot = [NoRot EXCEPT !.requestedYaw = angle]
    /\ lin = NoLin
    /\ cmd = SendCmd(0, 0)
    /\ reports = <<>>
    /\ calls = <<>>
    /\ hist = NoHist
    /\ plant = NoPlant

\* normalizeAngle(requestedYaw), in place (lines 146-154).
Normalize ==
    /\ pc = "normalize"
    /\ pc' = "normalized"
    /\ rot' = [rot EXCEPT !.requestedYaw = NormalizeAngle(rot.requestedYaw)]
    /\ UNCHANGED <<plant, env, preferredPlanningFrame, now, ea, lin, cmd, reports,
                   calls, hist>>

\* normalizeAngle applied to its own result.
NormalizeAgain ==
    /\ pc = "normalized"
    /\ pc' = "normalizedTwice"
    /\ rot' = [rot EXCEPT !.requestedYaw = NormalizeAngle(rot.requestedYaw)]
    /\ UNCHANGED <<plant, env, preferredPlanningFrame, now, ea, lin, cmd, reports,
                   calls, hist>>

NextAngle == Normalize \/ NormalizeAgain

\* normalizeAngle on every argument in Angles.
SpecAngle == InitAngle /\ [][NextAngle]_vars

\* ------------------------------------------------ one call of moveLinear

\* executeAction about to call moveLinear for a goal straight ahead, which
\* needs no initial rotation (lines 474-494 with requestedYaw = 0).
InitLinear ==
    /\ cfg \in Configs
    /\ preferredPlanningFrame = ""
    /\ preemptRequested \in BOOLEAN
    /\ forwardObstacleDist \in ObstacleDists
    /\ tfAvailable \in SUBSET Frames
    /\ now = 0
    /\ pc = "moveLinearEntry"
    /\ ea = [frameId |-> "map", yaw |-> 0, goalYaw |-> 0, planningFrame |-> "map",
             drivingFrame |-> "map", requestedYaw |-> 0, lookups |-> <<>>,
             linear |-> <<20, 0>>]
    /\ rot = NoRot
    /\ lin = NoLin
    /\ cmd = SendCmd(0, 0)
    /\ reports = <<>>
    /\ calls = <<>>
    /\ hist = NoHist
    /\ plant = NoPlant

NextLinear ==
    \/ Run
    \/ PreemptRequest
    \/ TfUpdate
    \/ MoveLinearEntry(RemainingXs, RemainingYs)
    \/ MoveLinearTick(RemainingXs, RemainingYs, MaxTime)

\* One call of moveLinear, with all that can happen in it.
SpecLinear == InitLinear /\ [][NextLinear]_vars

\* ------------------------- one call of moveLinear, under reconfiguration

NextReconfig ==
    \/ Reconfig
    \/ Run
    \/ PreemptRequest
    \/ TfUpdate
    \/ MoveLinearEntry(RemainingXs, RemainingYs)
    \/ MoveLinearTick(RemainingXs, RemainingYs, MaxReconfigTime)

\* One call of moveLinear while dynamic reconfigure delivers configurations.
SpecReconfig == InitLinear /\ [][NextReconfig]_vars

\* ----------------- one call of moveLinear, raced by a reconfiguration

NextRace ==
    \/ Run
    \/ PreemptRequest
    \/ TfUpdate
    \/ MoveLinearEntry(RemainingXs, RemainingYs)
    \/ MoveLinearTick(RemainingXs, RemainingYs, MaxRaceTime)
    \/ MoveLinearTickRacing(RemainingXs, RemainingYs, MaxRaceTime)

\* One call of moveLinear while run() dispatches reconfigurations.
SpecRace == InitLinear /\ [][NextRace]_vars

\* ------------------------------------------------------------ properties

\* The running (or last) controller call.
LastCall == calls[Len(calls)]

\* The call of a phase, when it was made.
Called(phase) == \E i \in DOMAIN calls : calls[i].phase = phase

\* A terminal outcome given to the action server so far.
Reported(outcome) == \E k \in DOMAIN reports : reports[k].outcome = outcome

\* abortGoal was called with this message.
Aborted(text) ==
    \E k \in DOMAIN reports :
        reports[k].outcome = "aborted" /\ reports[k].text = text

\* abortGoal is called with this message in this step.
AbortsNow(text) ==
    \E k \in (Len(reports) + 1)..Len(reports') :
        reports'[k].outcome = "aborted" /\ reports'[k].text = text

\* This step is a tick of moveLinear whose pose lookup succeeded.
LinTicked ==
    /\ pc = "moveLinear"
    /\ now' = now + 1
    /\ ~calls'[Len(calls')].lookup

\* This step is a tick of rotate whose pose lookup succeeded.
RotTicked ==
    /\ pc \in {"rotate1", "rotate2"}
    /\ <<pc, rot, cmd, calls, reports>>' # <<pc, rot, cmd, calls, reports>>
    /\ ~calls'[Len(calls')].lookup

\* This step is the return of the running controller call.
CallReturns(success) ==
    /\ LastCall.ret = "running"
    /\ calls'[Len(calls')].ret = IF success THEN "true" ELSE "false"

\* C1: a tick of moveLinear returns success only if in that tick no preempt
\* was requested and neither the obstacle abort nor the no-progress abort
\* fired, whatever the finish condition says.
C1_SuccessOnlyWithoutPreemptOrAbort ==
    [][(LinTicked /\ CallReturns(TRUE)) =>
          (~preemptRequested /\ ~AbortsNow("obstacle")
           /\ ~AbortsNow("no progress"))]_vars

\* C2: a rotate tick in which preempt is requested ends the call with
\* failure and a zero angular command, whatever the tolerance check says.
C2_PreemptOutranksTolerance ==
    [][(RotTicked /\ preemptRequested) =>
          (CallReturns(FALSE) /\ cmd'.angular = 0)]_vars

\* C3: succeeded is never reported for a goal for which aborted has been
\* reported.
C3_NoSucceededAfterAborted ==
    \A i, j \in DOMAIN reports :
        (i < j /\ reports[i].outcome = "aborted")
            => reports[j].outcome # "succeeded"

\* C4: when a controller call ended on an observed preempt request, the goal
\* has reported aborted with a preempt message by the time executeAction
\* returns.
C4_PreemptIsReported ==
    (pc \in Returns /\ \E i \in DOMAIN calls : calls[i].preempt)
        => Aborted("preempted")

\* executeAction returned after a transform lookup failed: in its setup, at
\* the entry of a controller or in a controller's tick.
LookupFailed ==
    \/ pc \in {"return395", "return420", "return440", "return452", "return471"}
    \/ pc \in Returns /\ \E i \in DOMAIN calls : calls[i].lookup

\* C5: a goal execution that ended on a failed transform lookup has reported
\* aborted and has not reported succeeded.
C5_LookupFailureAborts ==
    LookupFailed => (Reported("aborted") /\ ~Reported("succeeded"))

\* Initial rotate, moveLinear, final rotate: the order of the phases.
Rank(phase) == CASE phase = "rotate1" -> 1
                 [] phase = "moveLinear" -> 2
                 [] phase = "rotate2" -> 3

\* C6: the controller calls of a goal are made in the order initial rotate,
\* moveLinear, final rotate, each at most once; no call follows a call that
\* returned failure; succeeded is reported only if every call that was made
\* returned success.
C6_ControllerCallOrder ==
    /\ \A i, j \in DOMAIN calls :
           i < j => Rank(calls[i].phase) < Rank(calls[j].phase)
    /\ \A i \in DOMAIN calls : i < Len(calls) => calls[i].ret = "true"
    /\ Reported("succeeded") => \A i \in DOMAIN calls : calls[i].ret = "true"

\* A goal that ran all three controllers and succeeded.
C6_Witness ==
    /\ pc = "return508"
    /\ Len(calls) = 3
    /\ Reported("succeeded")

\* C7: a goal is not reported succeeded without the final rotation while
\* its final-orientation error exceeds angularTolerance, also when its
\* straight-line distance is within linearTolerance.
C7_FinalRotationNotSkipped ==
    (pc = "return508" /\ Abs(FinalYaw(ea)) > cfg.angularTolerance)
        => Called("rotate2")

\* C8: in a tick of moveLinear whose obstacle distance is below
\* forwardObstacleThreshold the controller is paused and the linear velocity
\* it emits is 0; in a tick whose obstacle distance is not below the
\* threshold the controller is not paused.
C8_ObstaclePausesAndStops ==
    [][LinTicked =>
          IF lin'.obstacleDist < cfg.forwardObstacleThreshold
          THEN lin'.pausingForObstacle /\ cmd'.linear = 0
          ELSE ~lin'.pausingForObstacle]_vars

\* The controller paused at some tick after the first and has since resumed.
C8_Witness ==
    /\ pc = "moveLinear"
    /\ ~lin.pausingForObstacle
    /\ lin.obstacleTime > 0
    /\ cmd.linear # 0

\* C9: a tick of moveLinear aborts with the obstacle message exactly when
\* the obstacle distance has been below forwardObstacleThreshold in every
\* tick of a run that began more than obstacleWaitThreshold before this
\* tick; the run, and with it the wait, starts anew at each new pause.
C9_ObstacleAbortAfterOnePause ==
    [][LinTicked =>
          (AbortsNow("obstacle") <=>
              (/\ hist'.detectedSince # -1
               /\ now' - hist'.detectedSince > cfg.obstacleWaitThreshold))]_vars

\* moveLinear aborted for an obstacle it had paused for more than once.
C9_Witness ==
    /\ Aborted("obstacle")
    /\ hist.detectedSince > 1

\* C10: a tick of moveLinear before which distRemaining has strictly
\* increased on every tick for longer than abortTimeoutSecs aborts with the
\* no-progress message; a tick on which distRemaining improves resets the
\* no-progress timer and does not abort; and a tick aborts with that message
\* only if more than abortTimeoutSecs have passed since the timer was reset.
C10_NoProgressAbort ==
    [][LinTicked =>
          /\ now' - hist'.risingSince > cfg.abortTimeoutSecs
                 => AbortsNow("no progress")
          /\ lin'.distRemaining < DistBefore
                 => (lin'.last = now' /\ ~AbortsNow("no progress"))
          /\ AbortsNow("no progress")
                 => now' - lin.last > cfg.abortTimeoutSecs]_vars

\* C11: a tick of moveLinear before which the distance to the goal has set
\* no new low-water-mark for longer than abortTimeoutSecs aborts with the
\* no-progress message, and only a tick that sets a new low-water-mark
\* resets the no-progress timer.
C11_StallAborts ==
    [][LinTicked =>
          /\ now' - hist'.improvedAt > cfg.abortTimeoutSecs
                 => AbortsNow("no progress")
          /\ lin'.last = now' => lin'.distRemaining < hist.lowMark]_vars

\* C12: in a tick of a moveLinear call whose motion is backward (forward is
\* false), the obstacle distance used for pausing and for capping the
\* velocity is the reverse-direction reading of the collision checker.
C12_ReverseUsesReverseReading ==
    [][(LinTicked /\ ~lin'.forward)
          => lin'.obstacleDist = hist'.reverseDist]_vars

\* The planning frame has been resolved, or resolution has failed.
PlanningDone == pc \notin {"idle", "planning", "return376"}

\* C13: once planning-frame resolution is over: with an empty
\* preferredPlanningFrame no lookup was made and the planning frame is the
\* goal's; otherwise the preferred frame was looked up first and the
\* alternate frame second, and only if the first lookup failed, each at most
\* once, and the planning frame is the one whose lookup succeeded; the goal
\* is aborted with the no-localization message exactly when both lookups
\* failed, and then no controller was called and no command emitted.
C13_PlanningFrameResolution ==
    PlanningDone =>
        LET ls == ea.lookups
            failed == Len(ls) = 2 /\ ~ls[1].ok /\ ~ls[2].ok
        IN  /\ preferredPlanningFrame = ""
                  => (ls = <<>> /\ ea.planningFrame = ea.frameId)
            /\ preferredPlanningFrame # ""
                  => /\ Len(ls) \in {1, 2}
                     /\ ls[1].to = preferredPlanningFrame
                     /\ Len(ls) = 2 <=> ~ls[1].ok
                     /\ Len(ls) = 2 => ls[2].to = alternatePlanningFrame
                     /\ ~failed => ea.planningFrame = ls[Len(ls)].to
            /\ Aborted("no localization for planning") <=> failed
            /\ failed => (pc = "return395" /\ calls = <<>>
                           /\ cmd = SendCmd(0, 0) /\ Len(reports) = 1)

\* A goal planned in the alternate frame after the preferred lookup failed,
\* and driven on from there.
C13_Witness ==
    /\ Len(ea.lookups) = 2
    /\ ea.lookups[2].ok
    /\ ea.planningFrame = alternatePlanningFrame
    /\ calls # <<>>

\* C14: when executeAction starts the translation phase with the alternate
\* driving frame chosen at the start of the goal, and the preferred driving
\* frame can be looked up by then, moveLinear drives in the preferred frame.
C14_DrivingFrameReResolved ==
    [][(/\ pc = "moveLinearEntry"
        /\ pc' # pc
        /\ ea.drivingFrame = alternateDrivingFrame
        /\ GetTransform(preferredDrivingFrame, baseFrame))
          => (pc' = "moveLinear"
              /\ lin'.drivingFrame = preferredDrivingFrame)]_vars

\* C15: a tick of moveLinear uses the values of the configuration in force
\* at that tick, also after a reconfiguration since the entry of the call:
\* the no-progress check compares with the current abortTimeoutSecs, the
\* pause with the current forwardObstacleThreshold, the obstacle abort with
\* the current obstacleWaitThreshold.
C15_ConfigReadFresh ==
    [][(LinTicked /\ cfg' = cfg) =>
          /\ AbortsNow("no progress")
                 <=> (/\ lin'.distRemaining > lin.prevDistRemaining
                      /\ now' - lin.last > cfg.abortTimeoutSecs)
          /\ lin'.pausingForObstacle
                 <=> lin'.obstacleDist < cfg.forwardObstacleThreshold
          /\ AbortsNow("obstacle")
                 <=> (/\ lin.pausingForObstacle
                      /\ lin'.pausingForObstacle
                      /\ now' - lin.obstacleTime > cfg.obstacleWaitThreshold)]_vars

\* C16: the tunables a tick of moveLinear reads all come from one delivered
\* configuration, the one before or the one after a reconfiguration that is
\* dispatched during the tick.
C16_NoPartialConfiguration ==
    [][LinTicked => hist'.read \in {cfg, cfg'}]_vars

\* The goal is behind the robot and near enough to back up to (line 466).
GoalBehind ==
    /\ cfg.reverseWithoutTurningThreshold > Length(ea.linear[1], ea.linear[2])
    /\ ea.linear[1] < 0

\* C17: when reverseWithoutTurning holds, the initial rotation asked for,
\* taken in (-PI, PI], is atan2(goalY, goalX) shifted by PI, on either side
\* of the robot, so it is at most PI/2 in magnitude; and for a goal directly
\* behind no initial rotation is made.
C17_ReverseTurnsGoalBehind ==
    (pc \in {"rotate1Entry", "moveLinearEntry"} /\ GoalBehind) =>
        /\ Principal(ea.requestedYaw)
               = Principal(Atan2(ea.linear[2], ea.linear[1]) + PI)
        /\ 2 * Abs(Principal(ea.requestedYaw)) <= PI
        /\ ea.linear[2] = 0 => (pc = "moveLinearEntry" /\ calls = <<>>)

\* C18: normalizeAngle returns a value in (-PI, PI], never -PI itself, for
\* every argument in [-3 PI, 3 PI], and applying it to its result changes
\* nothing.
C18_NormalizeAngleRange ==
    [][(pc \in {"normalize", "normalized"} /\ pc' # pc) =>
          /\ -PI < rot'.requestedYaw
          /\ rot'.requestedYaw <= PI
          /\ pc = "normalized" => rot'.requestedYaw = rot.requestedYaw]_vars

\* A tick of rotate: after the first one (the velocity of a tick that did
\* not return is never zero) the remaining angle does not grow, and the
\* command turns towards the goal yaw or is zero.
RotationTickConverges ==
    pc \in {"rotate1", "rotate2"} =>
        /\ rot.velocity # 0
              => Abs(rot'.angleRemaining) <= Abs(rot.angleRemaining)
        /\ cmd'.angular * rot'.angleRemaining >= 0
        /\ cmd'.linear = 0

\* C19: while rotate runs for a robot that turns as commanded, with nothing
\* in the way, no preempt and its pose always available, |angleRemaining|
\* never increases from one tick to the next, every angular command has the
\* sign of angleRemaining or is zero, and rotate eventually returns success.
C19_RotationConverges ==
    /\ [][RotationTickConverges]_vars
    /\ <>(calls # <<>> /\ calls[1].ret = "true")

\* rotate has turned the robot from yaw 0 by a quarter turn to the left, to
\* within angularTolerance, and returned success.
C19_Witness ==
    /\ calls # <<>>
    /\ calls[1].ret = "true"
    /\ rot.yaw = 90
    /\ rot.requestedYaw = 90
    /\ plant.yaw > (90 - cfg.angularTolerance) * Rate
    /\ cmd.angular = 0

\* C20: for a goal straight ahead of a robot that moves as commanded, with
\* nothing in the way, no preempt and all transforms available,
\* executeAction calls rotate neither before nor after the translation,
\* moveLinear runs until distRemaining < linearTolerance and returns
\* success, and the goal is eventually reported succeeded and never aborted.
C20_StraightAheadSucceeds ==
    /\ [](~Called("rotate1") /\ ~Called("rotate2"))
    /\ [](pc \notin {"rotate1Entry", "rotate1", "rotate2Entry", "rotate2"})
    /\ [](~Reported("aborted"))
    /\ []((calls # <<>> /\ calls[1].ret # "running")
            => (calls[1].ret = "true"
                /\ Abs(PlantRemaining(plant)) < cfg.linearTolerance))
    /\ <>(Reported("succeeded"))

\* The goal two metres ahead was reported succeeded, the robot within
\* linearTolerance of it after a translation and no rotation.
C20_Witness ==
    /\ Reported("succeeded")
    /\ ea.linear = <<200, 0>>
    /\ Len(calls) = 1
    /\ calls[1].phase = "moveLinear"
    /\ 200 - (plant.x \div Rate) < cfg.linearTolerance
    /\ plant.x > 0

\* Lines 663-667: the sum of the three PID terms, clamped.
ClampedPid(c, error, integral, diff) ==
    Max(-c.maxLateralVelocity,
        Min(c.maxLateralVelocity,
            (c.lateralKp * error) + (c.lateralKi * integral)
            + (c.lateralKd * diff)))

\* A tick of moveLinear: the derivative is this tick's lateral error minus
\* the one of the tick before (0 before the first), and the rotation sent
\* is the clamped sum of the three terms.
LateralTickDerives ==
    LinTicked =>
        /\ lin'.lateralDiff = lin'.lateralError - lin.lateralError
        /\ cmd'.angular = ClampedPid(cfg, lin'.lateralError,
                                      lin'.lateralIntegral,
                                      lin'.lateralError - lin.lateralError)

\* C21: in every tick of moveLinear the derivative term of the lateral PID
\* is the lateral error of the tick minus that of the tick before, and the
\* rotation sent is Kp*error + Ki*integral + Kd*diff clamped to
\* [-maxLateralVelocity, maxLateralVelocity].
C21_LateralDerivative == [][LateralTickDerives]_vars

\* A step of moveLinear keeps the progress mark a low-water mark: the entry
\* sets it to requestedDistance, and a tick never raises it and leaves it at
\* the least of requestedDistance and the distances seen so far.
ProgressMarkIsLowWater ==
    /\ (pc = "moveLinearEntry" /\ pc' = "moveLinear")
          => lin'.prevDistRemaining = lin'.requestedDistance
    /\ LinTicked
          => /\ lin'.prevDistRemaining <= lin.prevDistRemaining
             /\ lin'.prevDistRemaining = hist'.lowMark

\* C22: the progress mark of moveLinear is a monotonic low-water mark: it is
\* requestedDistance at entry, never increases during the call, and after
\* every tick equals the minimum of requestedDistance and every
\* distRemaining observed so far.
C22_ProgressMarkLowWater == [][ProgressMarkIsLowWater]_vars

\* The command of a tick is within the limits of the configuration: of
\* moveLinear, both velocities within their maxima; of rotate, no linear
\* velocity, and an angular velocity of 0 on the tick the preempt or the
\* tolerance branch is taken, between the minimum and the maximum turning
\* velocity otherwise.
CommandWithinLimits ==
    /\ LinTicked
          => /\ Abs(cmd'.linear) <= cfg.maxLinearVelocity
             /\ Abs(cmd'.angular) <= cfg.maxLateralVelocity
    /\ RotTicked
          => /\ cmd'.linear = 0
             /\ cfg.minTurningVelocity <= cfg.maxTurningVelocity
                   => Abs(cmd'.angular) <= cfg.maxTurningVelocity
             /\ IF preemptRequested
                    \/ Abs(rot'.angleRemaining) < cfg.angularTolerance
                THEN cmd'.angular = 0
                ELSE Abs(cmd'.angular) >= cfg.minTurningVelocity

\* C23: every command of moveLinear has |linear| <= maxLinearVelocity and
\* |angular| <= maxLateralVelocity; every command of rotate has linear 0,
\* |angular| <= maxTurningVelocity when minTurningVelocity <=
\* maxTurningVelocity, |angular| >= minTurningVelocity on a tick that is not
\* the exit tick, and angular 0 on the tick the tolerance or the preempt
\* condition fires.
C23_CommandsWithinLimits == [][CommandWithinLimits]_vars

\* After a rotate call that succeeded, moveLinear is running and its last
\* command is moving the robot and turning it at the lateral maximum.
C23_Witness ==
    /\ pc = "moveLinear"
    /\ Len(calls) = 2
    /\ calls[1].phase = "rotate1"
    /\ calls[1].ret = "true"
    /\ cmd.linear # 0
    /\ Abs(cmd.angular) = cfg.maxLateralVelocity
    /\ Abs(lin.lateralError) > 0

\* This step is the return of a controller call from inside its loop.
ReturnsFromLoop ==
    /\ pc \in {"rotate1", "rotate2", "moveLinear"}
    /\ pc' # pc

\* A return from the loop of a controller leaves a stop command behind.
ReturnLeavesStopped == ReturnsFromLoop => cmd' = SendCmd(0, 0)

\* C24: whenever rotate or moveLinear returns from a tick (success,
\* preempt, obstacle or no-progress abort, or a failed transform lookup),
\* the last command sent has angular and linear velocity 0.
C24_ReturnLeavesStopped == [][ReturnLeavesStopped]_vars

====
